---- MODULE Spec2Model ----
(***************************************************************************)
(* SolteqTandDatabase (mbu_dev_shared_components/solteqtand/db_handler.py) *)
(*                                                                         *)
(* A call either runs _construct_sql_statement on its own, or runs one of  *)
(* the get_list_of_* methods, which compile the filters with the default   *)
(* ordering arguments and hand the result to _execute_query.               *)
(*                                                                         *)
(* Text is a sequence of fragments: every column name, every keyword       *)
(* fragment and every "?" marker is one element, so two texts are equal    *)
(* exactly when their fragment sequences are.  A Python value is a record  *)
(* [type, val]: val holds the elements of a tuple or a list, and the       *)
(* characters of a str.                                                    *)
(***************************************************************************)
EXTENDS Integers, Sequences, FiniteSets, TLC

\* Largest input explored: filter entries, plus (empty) OR elements, plus
\* non-default ordering arguments, plus the database round trip.
MaxSize == 3

(***************************************************************************)
(* Values                                                                  *)
(***************************************************************************)
Tuple(elems) == [type |-> "tuple", val |-> elems]
List(elems) == [type |-> "list", val |-> elems]
Str(chars) == [type |-> "str", val |-> chars]
Scalar(x) == [type |-> "scalar", val |-> <<x>>]

\* The elements of a tuple or list are scalars of their own.
Elems(value) == [i \in 1..Len(value.val) |-> Scalar(value.val[i])]

\* IsPair without the length test.
IsPairAnyLength(value) == value.type = "tuple"

\* isinstance(value, tuple) and len(value) == 2
IsPair(value) == value.type = "tuple" /\ Len(value.val) = 2
\* isinstance(value, list)
IsList(value) == value.type = "list"
\* isinstance(value, str) and "%" in value
IsWildcard(value) == value.type = "str" /\ \E i \in 1..Len(value.val) : value.val[i] = "%"

(***************************************************************************)
(* Text helpers                                                            *)
(***************************************************************************)
RECURSIVE Join(_, _)
\* sep.join(parts), parts a sequence of texts
Join(sep, parts) ==
    IF Len(parts) = 0 THEN <<>>
    ELSE IF Len(parts) = 1 THEN parts[1]
    ELSE parts[1] \o sep \o Join(sep, Tail(parts))

RECURSIVE Concat(_)
\* list.extend over a sequence of lists
Concat(lists) ==
    IF Len(lists) = 0 THEN <<>> ELSE lists[1] \o Concat(Tail(lists))

\* ", ".join("?" for _ in value)
Placeholders(value) == Join(<<", ">>, [i \in 1..Len(value.val) |-> <<"?">>])

UpperChar(c) ==
    CASE c = "a" -> "A" [] c = "s" -> "S" [] c = "c" -> "C"
      [] c = "d" -> "D" [] c = "e" -> "E" [] c = "u" -> "U"
      [] c = "p" -> "P" [] c = "n" -> "N" [] c = "i" -> "I"
      [] c = "g" -> "G"
      [] OTHER -> c

\* Upper left out: the direction compared as given.
UpperAsGiven(s) == s

\* str.upper()
Upper(s) == [i \in 1..Len(s) |-> UpperChar(s[i])]

ASC == <<"A", "S", "C">>
DESC == <<"D", "E", "S", "C">>

(***************************************************************************)
(* _construct_sql_statement                                                *)
(***************************************************************************)
\* AndPredicate with params.append(value) in the BETWEEN branch.
AndPredicateAppendsPair(key, value) ==
    IF IsPair(value)
      THEN [clause |-> <<key, " BETWEEN ", "?", " AND ", "?">>, params |-> <<value>>]
    ELSE IF IsList(value)
      THEN [clause |-> <<key, " IN (">> \o Placeholders(value) \o <<")">>,
            params |-> Elems(value)]
    ELSE IF IsWildcard(value)
      THEN [clause |-> <<key, " LIKE ", "?">>, params |-> <<value>>]
    ELSE [clause |-> <<key, " = ", "?">>, params |-> <<value>>]

\* One AND filter entry: the predicate text and the parameters it binds.
AndPredicate(key, value) ==
    IF IsPair(value)
      THEN [clause |-> <<key, " BETWEEN ", "?", " AND ", "?">>, params |-> Elems(value)]
    ELSE IF IsList(value)
      THEN [clause |-> <<key, " IN (">> \o Placeholders(value) \o <<")">>,
            params |-> Elems(value)]
    ELSE IF IsWildcard(value)
      THEN [clause |-> <<key, " LIKE ", "?">>, params |-> <<value>>]
    ELSE [clause |-> <<key, " = ", "?">>, params |-> <<value>>]

\* OrPredicate with the value formatted into the equality text.
OrPredicateInlinesValue(key, value) ==
    IF IsList(value)
      THEN [clause |-> <<key, " IN (">> \o Placeholders(value) \o <<")">>,
            params |-> Elems(value)]
    ELSE IF IsWildcard(value)
      THEN [clause |-> <<key, " LIKE ", "?">>, params |-> <<value>>]
    ELSE [clause |-> <<key, " = ">> \o value.val, params |-> <<>>]

\* OrPredicate sharing the AND classification, BETWEEN included.
OrPredicateWithBetween(key, value) == AndPredicate(key, value)

\* One entry of an OR filter element.
OrPredicate(key, value) ==
    IF IsList(value)
      THEN [clause |-> <<key, " IN (">> \o Placeholders(value) \o <<")">>,
            params |-> Elems(value)]
    ELSE IF IsWildcard(value)
      THEN [clause |-> <<key, " LIKE ", "?">>, params |-> <<value>>]
    ELSE [clause |-> <<key, " = ", "?">>, params |-> <<value>>]

\* "if filters:" / "if or_filters:" / "if order_by:"
Truthy(arg) == ~arg.none /\ arg.items # <<>>

AndPredicates(fs) ==
    IF Truthy(fs)
      THEN [i \in 1..Len(fs.items) |-> AndPredicate(fs.items[i].key, fs.items[i].value)]
      ELSE <<>>

\* The predicates of one OR filter element.
SubPredicates(or_filter) ==
    [i \in 1..Len(or_filter) |-> OrPredicate(or_filter[i].key, or_filter[i].value)]

\* SubClause without the parentheses around the element.
SubClauseBare(or_filter) ==
    Join(<<" OR ">>, [i \in 1..Len(or_filter) |-> SubPredicates(or_filter)[i].clause])

\* SubClause with the entries of the element joined by AND.
SubClauseJoinsWithAnd(or_filter) ==
    <<"(">> \o Join(<<" AND ">>, [i \in 1..Len(or_filter) |-> SubPredicates(or_filter)[i].clause])
            \o <<")">>

\* sub_clauses of one element, joined and parenthesised.
SubClause(or_filter) ==
    <<"(">> \o Join(<<" OR ">>, [i \in 1..Len(or_filter) |-> SubPredicates(or_filter)[i].clause])
            \o <<")">>

SubParams(or_filter) ==
    Concat([i \in 1..Len(or_filter) |-> SubPredicates(or_filter)[i].params])

\* NonEmptyElements without the "if sub_clauses:" test.
EveryElement(ofs) == IF Truthy(ofs) THEN ofs.items ELSE <<>>

\* "if sub_clauses:" keeps the elements that have an entry.
NonEmptyElements(ofs) ==
    IF Truthy(ofs) THEN SelectSeq(ofs.items, LAMBDA m : Len(m) > 0) ELSE <<>>

OrderDirection(order_direction) ==
    IF Upper(order_direction) \notin {ASC, DESC} THEN ASC ELSE Upper(order_direction)

OrderByClause(ob, order_direction) ==
    IF Truthy(ob)
      THEN <<" ORDER BY ">> \o ob.items \o <<" ">> \o OrderDirection(order_direction)
      ELSE <<>>

\* ParamOrder with the OR parameters collected first.
ParamOrderOrFirst(and_params, or_params) == or_params \o and_params

\* params after the AND loop, extended by each element's sub_params.
ParamOrder(and_params, or_params) == and_params \o or_params

ConstructSqlStatement(base, fs, ofs, ob, order_direction) ==
    LET preds == AndPredicates(fs)
        where_clauses == [i \in 1..Len(preds) |-> preds[i].clause]
        and_params == Concat([i \in 1..Len(preds) |-> preds[i].params])
        elements == NonEmptyElements(ofs)
        or_clauses == [i \in 1..Len(elements) |-> SubClause(elements[i])]
        or_params == Concat([i \in 1..Len(elements) |-> SubParams(elements[i])])
        with_and == IF where_clauses # <<>>
                      THEN base \o <<" AND ">> \o Join(<<" AND ">>, where_clauses)
                      ELSE base
        with_or == IF or_clauses # <<>>
                     THEN with_and \o <<" AND (">> \o Join(<<" OR ">>, or_clauses) \o <<")">>
                     ELSE with_and
    IN  [query |-> with_or \o OrderByClause(ob, order_direction),
         params |-> ParamOrder(and_params, or_params)]

(***************************************************************************)
(* Inputs                                                                  *)
(***************************************************************************)
None == [none |-> TRUE, items |-> <<>>]
Given(x) == [none |-> FALSE, items |-> x]

Entry(k, v) == [key |-> k, value |-> v]

\* Filter entries a caller may pass: every shape the classification tells
\* apart, on columns of the queried tables.
Entries ==
    { Entry("b.StartTime", Tuple(<<"65", "18">>)),
      Entry("b.StartTime", Tuple(<<"7">>)),
      Entry("e.type", List(<<>>)),
      Entry("e.type", List(<<"Y", "Z">>)),
      Entry("e.type", Str(<<"X">>)),
      Entry("p.cpr", Str(<<"%", "1", "2">>)) }

KeysOf(m) == {m[i].key : i \in 1..Len(m)}

RECURSIVE MapsOfLen(_)
\* dicts with n entries, in every insertion order
MapsOfLen(n) ==
    IF n = 0 THEN {<<>>}
    ELSE {Append(p[1], p[2]) :
            p \in {q \in MapsOfLen(n - 1) \X Entries : q[2].key \notin KeysOf(q[1])}}

ElementsOfCost(c) == IF c = 1 THEN MapsOfLen(0) \cup MapsOfLen(1) ELSE MapsOfLen(c)

RECURSIVE OrListsOfCost(_)
OrListsOfCost(c) ==
    IF c = 0 THEN {<<>>}
    ELSE UNION {{<<p[1]>> \o p[2] : p \in ElementsOfCost(j) \X OrListsOfCost(c - j)} :
                  j \in 1..c}

FiltersOfCost(c) ==
    IF c = 0 THEN {None, Given(<<>>)} ELSE {Given(m) : m \in MapsOfLen(c)}

OrFiltersOfCost(c) ==
    IF c = 0 THEN {None, Given(<<>>)} ELSE {Given(l) : l \in OrListsOfCost(c)}

OrderColumns == {None, Given(<<>>), Given(<<"b.StartTime">>)}

Directions ==
    { ASC, DESC, <<"a", "s", "c">>, <<"d", "e", "s", "c">>, <<"D", "e", "s", "c">>,
      <<"u", "p">>, <<"a", "s", "c", "e", "n", "d", "i", "n", "g">>, <<>> }

OrderCost(ob, dir) == (IF ob = None THEN 0 ELSE 1) + (IF dir = ASC THEN 0 ELSE 1)

Base == <<"SELECT * FROM [BOOKING] b WHERE 1=1">>

(***************************************************************************)
(* State                                                                   *)
(***************************************************************************)
VARIABLES
    op,               \* "construct": _construct_sql_statement; "get_list": get_list_of_*
    filters, or_filters, order_by, order_direction,   \* the arguments
    pc,               \* position of the call
    query, params,    \* what _construct_sql_statement returned
    conn,             \* the pyodbc connection: "none", "open", "closed"
    opened            \* connections opened by the call

vars == <<op, filters, or_filters, order_by, order_direction, pc, query, params, conn, opened>>

args == <<op, filters, or_filters, order_by, order_direction>>

Init ==
    /\ \E a \in 0..MaxSize : \E b \in 0..(MaxSize - a) :
         /\ filters \in FiltersOfCost(a)
         /\ or_filters \in OrFiltersOfCost(b)
         /\ \/ /\ op = "construct"
               /\ order_by \in OrderColumns
               /\ order_direction \in Directions
               /\ OrderCost(order_by, order_direction) <= MaxSize - a - b
            \/ /\ op = "get_list"
               /\ a + b < MaxSize
               /\ order_by = None
               /\ order_direction = ASC
    /\ pc = "start"
    /\ query = <<>>
    /\ params = <<>>
    /\ conn = "none"
    /\ opened = 0

\* final_query, params = self._construct_sql_statement(base_query, filters, or_filters, ...)
Construct ==
    /\ pc = "start"
    /\ LET r == ConstructSqlStatement(Base, filters, or_filters, order_by, order_direction)
       IN  /\ query' = r.query
           /\ params' = r.params
    /\ pc' = "constructed"
    /\ UNCHANGED <<args, conn, opened>>

\* conn = pyodbc.connect(self.connection_string)
Connect ==
    /\ pc = "constructed"
    /\ op = "get_list"
    /\ \/ /\ conn' = "open"
          /\ opened' = opened + 1
          /\ pc' = "connected"
       \/ /\ pc' = "raised"
          /\ UNCHANGED <<conn, opened>>
    /\ UNCHANGED <<args, query, params>>

\* cursor.execute(query, params)
Execute ==
    /\ pc = "connected"
    /\ pc' \in {"executed", "raised"}
    /\ UNCHANGED <<args, query, params, conn, opened>>

\* rows = cursor.fetchall()
Fetchall ==
    /\ pc = "executed"
    /\ pc' \in {"fetched", "raised"}
    /\ UNCHANGED <<args, query, params, conn, opened>>

\* return result: the frame's reference to conn is dropped, nothing closes it;
\* whether the interpreter reclaims it at once is up to the interpreter.
Return ==
    /\ pc = "fetched"
    /\ pc' = "returned"
    /\ conn' \in {"open", "closed"}
    /\ UNCHANGED <<args, query, params, opened>>

\* The interpreter finalizes the connection object some time after the call.
Finalize ==
    /\ pc \in {"returned", "raised"}
    /\ conn = "open"
    /\ conn' = "closed"
    /\ UNCHANGED <<args, pc, query, params, opened>>

Next == Construct \/ Connect \/ Execute \/ Fetchall \/ Return \/ Finalize

Spec == Init /\ [][Next]_vars

(***************************************************************************)
(* Reading a compiled query back                                           *)
(***************************************************************************)
\* The call has run _construct_sql_statement.
Compiled == pc # "start"

AndItems == IF filters.none THEN <<>> ELSE filters.items
OrItems == IF or_filters.none THEN <<>> ELSE or_filters.items
\* The entries of all OR elements, in list order then mapping order.
OrEntries == Concat(OrItems)

Columns == {e.key : e \in Entries}

RECURSIVE Count(_, _)
Count(x, text) ==
    IF text = <<>> THEN 0
    ELSE (IF text[1] = x THEN 1 ELSE 0) + Count(x, Tail(text))

RECURSIVE UpTo(_, _)
\* The text in front of the first occurrence of fragment x.
UpTo(x, text) ==
    IF text = <<>> \/ text[1] = x THEN <<>>
    ELSE <<text[1]>> \o UpTo(x, Tail(text))

IsPrefix(p, text) == Len(p) <= Len(text) /\ SubSeq(text, 1, Len(p)) = p
IsSuffix(p, text) ==
    Len(p) <= Len(text) /\ SubSeq(text, Len(text) - Len(p) + 1, Len(text)) = p

\* What the call added to the base query, and the filter clauses of it.
Appended == SubSeq(query, Len(Base) + 1, Len(query))
FilterText == UpTo(" ORDER BY ", Appended)

RECURSIVE MarkersOfPredicate(_)
\* The "?" markers from the head of the text to the next column name.
MarkersOfPredicate(text) ==
    IF text = <<>> \/ text[1] \in Columns THEN 0
    ELSE (IF text[1] = "?" THEN 1 ELSE 0) + MarkersOfPredicate(Tail(text))

RECURSIVE Slots(_)
\* The predicates of a text, left to right: column, operator, "?" markers.
Slots(text) ==
    IF Len(text) < 2 THEN <<>>
    ELSE IF text[1] \in Columns
      THEN <<[key |-> text[1], op |-> text[2], n |-> MarkersOfPredicate(Tail(text))]>>
           \o Slots(Tail(text))
    ELSE Slots(Tail(text))

RECURSIVE Sum(_)
Sum(ns) == IF ns = <<>> THEN 0 ELSE ns[1] + Sum(Tail(ns))

(***************************************************************************)
(* C1                                                                      *)
(***************************************************************************)
AndParamCount(v) ==
    IF v.type = "tuple" /\ Len(v.val) = 2 THEN 2
    ELSE IF v.type = "list" THEN Len(v.val)
    ELSE 1

OrParamCount(v) == IF v.type = "list" THEN Len(v.val) ELSE 1

ExpectedParamCount ==
    Sum([i \in 1..Len(AndItems) |-> AndParamCount(AndItems[i].value)])
    + Sum([i \in 1..Len(OrEntries) |-> OrParamCount(OrEntries[i].value)])

\* C1: the number of "?" markers the call adds to the base query equals the
\* length of the returned parameter list, which is 2 per BETWEEN, len(value)
\* per IN and 1 per equality or LIKE, for AND and OR filters alike.
PlaceholdersMatchParams ==
    Compiled =>
        /\ Count("?", Appended) = Len(params)
        /\ Len(params) = ExpectedParamCount

\* A pair in AND position next to a two-element list in OR position.
PlaceholdersMatchParamsWitness ==
    /\ pc = "constructed"
    /\ \E i \in 1..Len(AndItems) : AndItems[i].value.type = "tuple"
    /\ \E i \in 1..Len(OrEntries) : OrEntries[i].value = List(<<"Y", "Z">>)
    /\ Len(params) >= 4

(***************************************************************************)
(* C2                                                                      *)
(***************************************************************************)
AndBinding(v) ==
    IF v.type = "tuple" /\ Len(v.val) = 2 THEN <<Scalar(v.val[1]), Scalar(v.val[2])>>
    ELSE IF v.type = "list" THEN [i \in 1..Len(v.val) |-> Scalar(v.val[i])]
    ELSE <<v>>

OrBinding(v) ==
    IF v.type = "list" THEN [i \in 1..Len(v.val) |-> Scalar(v.val[i])] ELSE <<v>>

\* Per filter entry, in the order the filters were supplied: the column and
\* the values to bind.
ExpectedBindings ==
    [i \in 1..Len(AndItems) |->
        [key |-> AndItems[i].key, params |-> AndBinding(AndItems[i].value)]]
    \o [i \in 1..Len(OrEntries) |->
        [key |-> OrEntries[i].key, params |-> OrBinding(OrEntries[i].value)]]

\* C2: the predicates appear in the query in the order AND filters, then OR
\* elements in list order, each in mapping order; each predicate has as many
\* "?" markers as it has values, and the parameter list is those values in
\* that same order, so the i-th parameter belongs to the i-th marker.
ParamsFollowPlaceholders ==
    Compiled =>
        LET slots == Slots(FilterText)
            want == ExpectedBindings
        IN  /\ Len(slots) = Len(want)
            /\ \A i \in 1..Len(want) :
                  /\ slots[i].key = want[i].key
                  /\ slots[i].n = Len(want[i].params)
            /\ params = Concat([i \in 1..Len(want) |-> want[i].params])

\* AND filters and two OR elements, all binding values.
ParamsFollowPlaceholdersWitness ==
    /\ pc = "constructed"
    /\ Len(AndItems) >= 1
    /\ Len(OrItems) = 2
    /\ \A i \in 1..2 : Len(OrItems[i]) = 1
    /\ Len(params) >= 4

(***************************************************************************)
(* C3                                                                      *)
(***************************************************************************)
\* Another value of the same shape: same type, same length, "%" where it was.
Revalued(v) ==
    [type |-> v.type,
     val |-> [i \in 1..Len(v.val) |-> IF v.val[i] = "%" THEN "%" ELSE "other"]]

RevaluedEntry(e, change) == IF change THEN Entry(e.key, Revalued(e.value)) ELSE e

OrPositions == {p \in (1..Len(OrItems)) \X (1..Cardinality(Columns)) : p[2] <= Len(OrItems[p[1]])}

\* The arguments with the values at the chosen places replaced.
RevaluedFilters(places) ==
    [none |-> filters.none,
     items |-> [i \in 1..Len(AndItems) |-> RevaluedEntry(AndItems[i], i \in places)]]

RevaluedOrFilters(places) ==
    [none |-> or_filters.none,
     items |-> [i \in 1..Len(OrItems) |->
                  [j \in 1..Len(OrItems[i]) |->
                      RevaluedEntry(OrItems[i][j], <<i, j>> \in places)]]]

\* Every element or character of every filter value of the call.
ValueAtoms ==
    UNION ({{e.value.val[i] : i \in 1..Len(e.value.val)} :
              e \in {AndItems[i] : i \in 1..Len(AndItems)}
                    \cup {OrEntries[i] : i \in 1..Len(OrEntries)}})

\* C3: a call with the same base query, columns and ordering and with values
\* of the same shape returns the same query text, whichever values are
\* replaced; no fragment of the text is taken from a filter value.
ValuesOnlyInParams ==
    Compiled =>
        LET places == OrPositions
            atoms == ValueAtoms
        IN  /\ \A sa \in SUBSET (1..Len(AndItems)) : \A so \in SUBSET places :
                  ConstructSqlStatement(Base, RevaluedFilters(sa), RevaluedOrFilters(so),
                                        order_by, order_direction).query = query
            /\ \A i \in 1..Len(query) : query[i] \notin atoms

\* Scalar, wildcard and sequence values, in AND and in OR position.
ValuesOnlyInParamsWitness ==
    /\ pc = "constructed"
    /\ \E i \in 1..Len(AndItems) : AndItems[i].value = Str(<<"X">>)
    /\ \E i \in 1..Len(OrEntries) : OrEntries[i].value = Str(<<"X">>)
    /\ \E i \in 1..Len(OrEntries) : OrEntries[i].value = Str(<<"%", "1", "2">>)
    /\ Len(params) = 3

(***************************************************************************)
(* C4                                                                      *)
(***************************************************************************)
ExpectedAndPredicate(e) ==
    CASE e.value.type = "tuple" /\ Len(e.value.val) = 2 ->
           <<e.key, " BETWEEN ", "?", " AND ", "?">>
      [] e.value.type = "list" /\ Len(e.value.val) = 0 -> <<e.key, " IN (", ")">>
      [] e.value.type = "list" /\ Len(e.value.val) > 0 ->
           <<e.key, " IN (", "?">>
           \o Concat([i \in 1..(Len(e.value.val) - 1) |-> <<", ", "?">>]) \o <<")">>
      [] e.value.type = "str" /\ "%" \in {e.value.val[i] : i \in 1..Len(e.value.val)} ->
           <<e.key, " LIKE ", "?">>
      [] OTHER -> <<e.key, " = ", "?">>

RECURSIVE ExpectedAndText(_)
ExpectedAndText(items) ==
    IF items = <<>> THEN <<>>
    ELSE <<" AND ">> \o ExpectedAndPredicate(items[1]) \o ExpectedAndText(Tail(items))

\* C4: the AND filters give, right after the base query, one predicate per
\* entry, each preceded by " AND ": BETWEEN for a 2-tuple, IN for a list of
\* any length, LIKE for a string with "%", equality otherwise; the parameters
\* are the two bounds in the given order, the list's elements, or the value.
AndFiltersByShape ==
    Compiled =>
        /\ IsPrefix(Base \o ExpectedAndText(AndItems), query)
        /\ IsPrefix(Concat([i \in 1..Len(AndItems) |-> AndBinding(AndItems[i].value)]),
                    params)

\* A pair with lower > upper and an empty list as AND filters.
AndFiltersByShapeWitness ==
    /\ pc = "constructed"
    /\ \E i \in 1..Len(AndItems) : AndItems[i].value = Tuple(<<"65", "18">>)
    /\ \E i \in 1..Len(AndItems) : AndItems[i].value = List(<<>>)
    /\ params = <<Scalar("65"), Scalar("18")>>

(***************************************************************************)
(* C5                                                                      *)
(***************************************************************************)
ExpectedOrPredicate(e) ==
    CASE e.value.type = "list" /\ Len(e.value.val) = 0 -> <<e.key, " IN (", ")">>
      [] e.value.type = "list" /\ Len(e.value.val) > 0 ->
           <<e.key, " IN (", "?">>
           \o Concat([i \in 1..(Len(e.value.val) - 1) |-> <<", ", "?">>]) \o <<")">>
      [] e.value.type = "str" /\ "%" \in {e.value.val[i] : i \in 1..Len(e.value.val)} ->
           <<e.key, " LIKE ", "?">>
      [] OTHER -> <<e.key, " = ", "?">>

RECURSIVE ExpectedAlternatives(_)
\* The predicates of one element, each after the first preceded by " OR ".
ExpectedAlternatives(entries) ==
    IF entries = <<>> THEN <<>>
    ELSE ExpectedAlternatives(SubSeq(entries, 1, Len(entries) - 1))
         \o (IF Len(entries) > 1 THEN <<" OR ">> ELSE <<>>)
         \o ExpectedOrPredicate(entries[Len(entries)])

RECURSIVE ExpectedSiblings(_, _)
\* The parenthesised elements that have an entry, " OR " between them.
ExpectedSiblings(items, sep) ==
    IF items = <<>> THEN <<>>
    ELSE IF items[1] = <<>> THEN ExpectedSiblings(Tail(items), sep)
    ELSE sep \o <<"(">> \o ExpectedAlternatives(items[1]) \o <<")">>
         \o ExpectedSiblings(Tail(items), <<" OR ">>)

ExpectedOrGroup(items) == <<" AND (">> \o ExpectedSiblings(items, <<>>) \o <<")">>

HasOrCondition == \E i \in 1..Len(OrItems) : OrItems[i] # <<>>

TypeExample ==
    << <<Entry("e.type", Str(<<"X">>))>>, <<Entry("e.type", List(<<"Y", "Z">>))>> >>

\* C5: when some OR element has an entry, the filter text is the AND
\* predicates followed by one clause " AND (...)": inside it every element
\* that has an entry is in parentheses with " OR " between its predicates,
\* and " OR " stands between the elements.  [{type: X}, {type: [Y, Z]}] gives
\* " AND ((type = ?) OR (type IN (?, ?)))" with params [X, Y, Z].
OrGroupParenthesised ==
    (Compiled /\ HasOrCondition) =>
        /\ FilterText = ExpectedAndText(AndItems) \o ExpectedOrGroup(OrItems)
        /\ (AndItems = <<>> /\ OrItems = TypeExample) =>
              /\ FilterText = <<" AND (", "(", "e.type", " = ", "?", ")", " OR ",
                                "(", "e.type", " IN (", "?", ", ", "?", ")", ")", ")">>
              /\ params = <<Str(<<"X">>), Scalar("Y"), Scalar("Z")>>

\* The example of the scenario, after an AND filter.
OrGroupParenthesisedWitness ==
    /\ pc = "constructed"
    /\ OrItems = TypeExample
    /\ Len(AndItems) = 1
    /\ Count("(", query) = 2

(***************************************************************************)
(* C6                                                                      *)
(***************************************************************************)
RECURSIVE From(_, _)
\* The text from the first occurrence of fragment x on.
From(x, text) ==
    IF text = <<>> \/ text[1] = x THEN text ELSE From(x, Tail(text))

\* The OR clause of the query, " AND (" included.
OrGroupText == From(" AND (", FilterText)

RECURSIVE ConnectivesAt(_, _, _)
\* The " AND " and " OR " fragments that stand inside `target` open parentheses.
ConnectivesAt(text, depth, target) ==
    IF text = <<>> THEN <<>>
    ELSE IF text[1] \in {" AND (", "(", " IN ("}
      THEN ConnectivesAt(Tail(text), depth + 1, target)
    ELSE IF text[1] = ")" THEN ConnectivesAt(Tail(text), depth - 1, target)
    ELSE (IF text[1] \in {" AND ", " OR "} /\ depth = target THEN <<text[1]>> ELSE <<>>)
         \o ConnectivesAt(Tail(text), depth, target)

\* Between the elements of the group, and between the entries of an element.
BetweenElements == ConnectivesAt(OrGroupText, 0, 1)
InsideElements == ConnectivesAt(OrGroupText, 0, 2)

EntriesJoined == Sum([i \in 1..Len(OrItems) |-> IF OrItems[i] = <<>> THEN 0 ELSE Len(OrItems[i]) - 1])

\* C6 as stated: the conditions of one OR element are AND-ed together.
OrElementEntriesAnded ==
    Compiled =>
        LET inside == InsideElements
        IN  /\ Len(inside) = EntriesJoined
            /\ \A i \in 1..Len(inside) : inside[i] = " AND "

\* C6 as amended: the conditions of one OR element are OR-ed together, the
\* elements are OR-ed with each other, and the group is AND-ed to the query.
OrElementEntriesOred ==
    Compiled =>
        LET inside == InsideElements
            between == BetweenElements
        IN  /\ Len(inside) = EntriesJoined
            /\ \A i \in 1..Len(inside) : inside[i] = " OR "
            /\ \A i \in 1..Len(between) : between[i] = " OR "
            /\ HasOrCondition =>
                  /\ Len(between) = Cardinality({i \in 1..Len(OrItems) : OrItems[i] # <<>>}) - 1
                  /\ Count(" AND (", query) = 1
                  /\ OrGroupText[1] = " AND ("

\* An element with two entries next to a sibling element.
OrElementEntriesOredWitness ==
    /\ pc = "constructed"
    /\ Len(OrItems) = 2
    /\ Len(OrItems[1]) = 2
    /\ Len(OrItems[2]) = 1
    /\ Len(InsideElements) = 1

(***************************************************************************)
(* C7                                                                      *)
(***************************************************************************)
LowerCase(c) ==
    CASE c = "A" -> "a" [] c = "S" -> "s" [] c = "C" -> "c"
      [] c = "D" -> "d" [] c = "E" -> "e"

\* s is word, each letter in either case.
InAnyCase(s, word) ==
    /\ Len(s) = Len(word)
    /\ \A i \in 1..Len(word) : s[i] \in {word[i], LowerCase(word[i])}

ExpectedDirection(dir) == IF InAnyCase(dir, DESC) THEN DESC ELSE ASC

\* C7: with a column to order by, the query is the base query, the filter
\* clauses with all their markers, and then " ORDER BY <column> <D>", D being
\* DESC for desc in any letter case and ASC for asc in any letter case and for
\* every other string; without order_by there is no ORDER BY whatever the
\* direction is.
OrderByLast ==
    Compiled =>
        /\ (~order_by.none /\ order_by.items # <<>>) =>
              /\ query = Base \o FilterText \o <<" ORDER BY ">> \o order_by.items
                              \o <<" ">> \o ExpectedDirection(order_direction)
              /\ Count("?", FilterText) = Len(params)
              /\ Len(Slots(FilterText)) = Len(AndItems) + Len(OrEntries)
              /\ InAnyCase(order_direction, ASC) => IsSuffix(ASC, query)
        /\ (order_by.none \/ order_by.items = <<>>) => Count(" ORDER BY ", query) = 0

\* A lower-case "desc" after a filter.
OrderByLastWitness ==
    /\ pc = "constructed"
    /\ order_by = Given(<<"b.StartTime">>)
    /\ order_direction = <<"d", "e", "s", "c">>
    /\ Len(AndItems) + Len(OrEntries) >= 1
    /\ IsSuffix(DESC, query)

(***************************************************************************)
(* C8                                                                      *)
(***************************************************************************)
NoCondition ==
    /\ filters.none \/ filters.items = <<>>
    /\ or_filters.none \/ \A i \in 1..Len(or_filters.items) : or_filters.items[i] = <<>>
    /\ order_by.none

\* C8: without a condition and without order_by the call returns the base
\* query unchanged and no parameter.
NoConditionNoChange ==
    (Compiled /\ NoCondition) => (query = Base /\ params = <<>>)

\* An empty mapping and a list of two empty mappings.
NoConditionNoChangeWitness ==
    /\ pc = "constructed"
    /\ filters = Given(<<>>)
    /\ or_filters = Given(<< <<>>, <<>> >>)
    /\ order_by = None
    /\ query = Base

(***************************************************************************)
(* C9                                                                      *)
(***************************************************************************)
Completed == pc \in {"returned", "raised"}

\* C9: a call opens one connection and has released it when it completes,
\* whether it returns rows or execute or fetchall raises.
ConnectionReleasedOnCompletion ==
    /\ opened <= 1
    /\ pc \in {"connected", "executed", "fetched", "returned"} => opened = 1
    /\ Completed => conn # "open"

(***************************************************************************)
(* C10                                                                     *)
(***************************************************************************)
\* C10: every OR entry gives IN for a list, LIKE for a string with "%" and
\* equality with one marker and one parameter for anything else, a 2-tuple
\* included, which is bound whole; the OR clause holds no BETWEEN.
OrFiltersByShape ==
    Compiled =>
        LET slots == Slots(OrGroupText)
        IN  /\ Len(slots) = Len(OrEntries)
            /\ \A i \in 1..Len(OrEntries) :
                  LET v == OrEntries[i].value
                  IN  /\ slots[i].key = OrEntries[i].key
                      /\ slots[i].op =
                            (IF v.type = "list" THEN " IN ("
                             ELSE IF v.type = "str" /\ \E j \in 1..Len(v.val) : v.val[j] = "%"
                               THEN " LIKE "
                             ELSE " = ")
                      /\ slots[i].n = (IF v.type = "list" THEN Len(v.val) ELSE 1)
            /\ Count(" BETWEEN ", OrGroupText) = 0
            /\ IsSuffix(Concat([i \in 1..Len(OrEntries) |->
                                   IF OrEntries[i].value.type = "list"
                                     THEN [j \in 1..Len(OrEntries[i].value.val) |->
                                             Scalar(OrEntries[i].value.val[j])]
                                     ELSE <<OrEntries[i].value>>]),
                        params)

\* A 2-tuple in an OR element, bound as one parameter.
OrFiltersByShapeWitness ==
    /\ pc = "constructed"
    /\ \E i \in 1..Len(OrEntries) : OrEntries[i].value = Tuple(<<"65", "18">>)
    /\ AndItems = <<>>
    /\ params = <<Tuple(<<"65", "18">>)>>

====
